---- MODULE Spec2Model ----
(***************************************************************************)
(* A model of the retrieval pipeline of Rag-vs-GraphRag:                   *)
(*   vector_processor.py  VectorDBProcessor  (semantic chunker, Qdrant)    *)
(*   graph_processor.py   GraphDBProcessor   (relation extractor, Neo4j)   *)
(*   hybrid_processor.py  HybridProcessor    (the combiner)                *)
(*                                                                         *)
(* Strings are sequences of one-character strings.  The external services  *)
(* (embedding, generation, Qdrant, Neo4j) are inputs of the actions: each  *)
(* call either fails or answers with a value drawn from a small set.       *)
(***************************************************************************)
EXTENDS Integers, Sequences, FiniteSets, TLC

VARIABLES
    ck,        \* one call of VectorDBProcessor._chunk_text: arguments and outcome
    ex,        \* one call of GraphDBProcessor._extract_entities_and_relationships
    points,    \* the Qdrant collection: a set of points [id, file, text, chunk_id]
    docs,      \* Neo4j Document nodes: a set of [id, filename]
    entities,  \* Neo4j Entity nodes: a set of [n, id, type], n the node's identity
    mentions,  \* Neo4j MENTIONED_IN edges: a set of [e, d], Entity node n to Document id
    rels,      \* Neo4j RELATED edges: a set of [src, type, tgt] between Entity nodes
    nextId,    \* [point, doc, node]: the identifiers handed out so far
    jobs,      \* the vector ingestions under way, and what has completed per file
    last       \* the last public call: its arguments, outcome and external calls

vars == <<ck, ex, points, docs, entities, mentions, rels, nextId, jobs, last>>

-----------------------------------------------------------------------------
(* Bounds of the model.                                                    *)

MaxPieces == 5      \* a chunker input text is at most this many pieces long

Pieces == {<<"a", ".">>, <<"b", ".">>, <<" ">>, <<"a">>}

\* the embedding vectors the embedding service may answer with
Vectors == {<<1, 0>>, <<1, 1>>, <<-1, 1>>}

\* max_chunk_size and min_chunk_size are parameters of _chunk_text; the
\* defaults (500, 100) are scaled down to the length of the texts above
MaxChunkSizes == {2, 4}
MinChunkSizes == {1, 3}

MaxEntities == 2    \* entities in one answer of the extraction model
MaxRelationships == 2   \* relationships in one answer of the extraction model

\* entity ids, entity types and relationship types the extraction model may name
EntityIds == {"x", "y"}
EntityTypes == {"Person", "Robot"}
RelTypes == {"works_for"}

MaxJobs == 2        \* the vector ingestions that run at the same time
MaxIngestions == 3  \* the vector ingestions begun in a run of the batch-wise model
MaxPoints == 2      \* point ids uuid4 hands out in one run
MaxDocs == 2        \* Document ids uuid4 hands out in one run

Files == {"f1", "f2"}

\* _chunk_text's defaults (line 34) and the batch size of line 100
DefaultMaxChunkSize == 500
DefaultMinChunkSize == 100
BatchSize == 100

\* similarity_threshold = 0.5, as the fraction Num / Den
SimilarityThresholdNum == 1
SimilarityThresholdDen == 2

-----------------------------------------------------------------------------
(* Strings.                                                                *)

RECURSIVE Concat(_)
Concat(ss) == IF ss = <<>> THEN <<>> ELSE Head(ss) \o Concat(Tail(ss))

RECURSIVE PieceSeqs(_)
PieceSeqs(n) ==
    IF n = 0 THEN {<<>>}
    ELSE LET shorter == PieceSeqs(n - 1)
         IN  shorter \cup {Append(s, p) : s \in {t \in shorter : Len(t) = n - 1}, p \in Pieces}

Texts == {Concat(s) : s \in PieceSeqs(MaxPieces)}

IsSpace(c) == c = " "
IsEndMark(c) == c \in {".", "!", "?"}

\* str.strip()
RECURSIVE LStrip(_)
LStrip(s) == IF s # <<>> /\ IsSpace(Head(s)) THEN LStrip(Tail(s)) ELSE s

RECURSIVE RStrip(_)
RStrip(s) ==
    IF s # <<>> /\ IsSpace(s[Len(s)]) THEN RStrip(SubSeq(s, 1, Len(s) - 1)) ELSE s

Strip(s) == RStrip(LStrip(s))

\* the first index >= i of text that holds no whitespace (Len(text) + 1 if none)
RECURSIVE SkipSpace(_, _)
SkipSpace(text, i) ==
    IF i <= Len(text) /\ IsSpace(text[i]) THEN SkipSpace(text, i + 1) ELSE i

\* a match of (?<=[.!?])\s+ starts at i: whitespace that follows '.', '!', '?'
CutAt(text, i) == IsSpace(text[i]) /\ i > 1 /\ IsEndMark(text[i - 1])

\* re.split(r'(?<=[.!?])\s+', text) from index i on: the text up to the
\* first match, then the split of what follows the matched run of whitespace
RECURSIVE ReSplit(_, _)
ReSplit(text, i) ==
    LET cuts == {k \in i..Len(text) : CutAt(text, k)} IN
    IF cuts = {} THEN <<SubSeq(text, i, Len(text))>>
    ELSE LET c == CHOOSE k \in cuts : \A j \in cuts : k <= j
         IN  <<SubSeq(text, i, c - 1)>> \o ReSplit(text, SkipSpace(text, c))

\* [s.strip() for s in re.split(...) if s.strip()]
Sentences(text) ==
    LET parts == ReSplit(text, 1)
        stripped == [k \in 1..Len(parts) |-> Strip(parts[k])]
    IN  SelectSeq(stripped, LAMBDA s : s # <<>>)

\* " ".join(chunk)
RECURSIVE Join(_)
Join(chunk) ==
    IF chunk = <<>> THEN <<>>
    ELSE IF Len(chunk) = 1 THEN chunk[1]
    ELSE chunk[1] \o <<" ">> \o Join(Tail(chunk))

-----------------------------------------------------------------------------
(* VectorDBProcessor._chunk_text                                           *)

Dot(a, b) == a[1] * b[1] + a[2] * b[2]

\* cosine_similarity([a], [b])[0][0] > similarity_threshold, in integers:
\* dot / (|a| |b|) > Num / Den
Similar(a, b) ==
    /\ Dot(a, b) > 0
    /\ SimilarityThresholdDen * SimilarityThresholdDen * Dot(a, b) * Dot(a, b)
         > SimilarityThresholdNum * SimilarityThresholdNum * Dot(a, a) * Dot(b, b)

\* a slip: a chunk closed inside the loop is committed whatever its length
ClosedAlwaysKept(len, minSize) == TRUE

\* the commit test of a chunk that is closed inside the loop
ClosedIsKept(len, minSize) == len >= minSize

\* st = [chunks, chunk, emb, len, groups]: the loop's variables after
\* sentence i - 1, and in groups the record of every chunk closed so far:
\* the positions first..last of its sentences, its chunk_token_length, and
\* whether it was committed
RECURSIVE ChunkLoop(_, _, _, _, _, _)
ChunkLoop(sents, embs, i, st, maxSize, minSize) ==
    IF i > Len(sents) THEN st
    ELSE LET s == sents[i]
             fresh == [chunks |-> st.chunks, chunk |-> <<s>>,
                       emb |-> embs[i], len |-> Len(s), groups |-> st.groups]
             closed == [fresh EXCEPT !.chunks =
                          IF ClosedIsKept(st.len, minSize)
                          THEN Append(st.chunks, Join(st.chunk)) ELSE st.chunks,
                                     !.groups = Append(st.groups,
                                        [first |-> i - Len(st.chunk), last |-> i - 1,
                                         len |-> st.len, trailing |-> FALSE,
                                         kept |-> ClosedIsKept(st.len, minSize)])]
             next ==
                 IF st.chunk = <<>> THEN fresh
                 ELSE IF st.len + Len(s) > maxSize THEN closed
                 ELSE IF Similar(embs[i], st.emb)
                      THEN [st EXCEPT !.chunk = Append(st.chunk, s),
                                      !.emb = embs[i],
                                      !.len = st.len + Len(s)]
                      ELSE closed
         IN  ChunkLoop(sents, embs, i + 1, next, maxSize, minSize)

\* a slip: the trailing chunk is kept only when it is long enough
TrailingNeedsMinSize(st, minSize) == st.chunk # <<>> /\ st.len >= minSize

\* the commit test of the trailing chunk (line 76)
TrailingIsKept(st, minSize) ==
    st.chunk # <<>> /\ (st.len >= minSize \/ Len(st.chunks) = 0)

\* lines 48-49: the loop's variables before the first sentence
LoopStart == [chunks |-> <<>>, chunk |-> <<>>, emb |-> <<0, 0>>, len |-> 0,
              groups |-> <<>>]

\* the chunks committed by the loop and by the trailing commit, in order
Committed(sents, embs, maxSize, minSize) ==
    LET st == ChunkLoop(sents, embs, 1, LoopStart, maxSize, minSize)
    IN  IF TrailingIsKept(st, minSize) THEN Append(st.chunks, Join(st.chunk))
        ELSE st.chunks

\* the record of all chunks the call formed: those closed in the loop, then
\* the trailing one
Groups(sents, embs, maxSize, minSize) ==
    LET st == ChunkLoop(sents, embs, 1, LoopStart, maxSize, minSize)
    IN  IF st.chunk = <<>> THEN st.groups
        ELSE Append(st.groups,
                    [first |-> Len(sents) - Len(st.chunk) + 1, last |-> Len(sents),
                     len |-> st.len, trailing |-> TRUE,
                     kept |-> TrailingIsKept(st, minSize)])

\* list(dict.fromkeys(chunks)): the first occurrence of every text, in order
RECURSIVE DedupFrom(_, _)
DedupFrom(seen, chunks) ==
    IF chunks = <<>> THEN seen
    ELSE DedupFrom(IF \E k \in 1..Len(seen) : seen[k] = Head(chunks)
                   THEN seen ELSE Append(seen, Head(chunks)),
                   Tail(chunks))

\* a slip: the committed chunks are returned as they are
DedupNothing(chunks) == chunks

Dedup(chunks) == DedupFrom(<<>>, chunks)

\* the whole function.  embResp is the embedding service's answer to the one
\* batched call: [ok, data]; ok = FALSE is a failed call.
ChunkText(text, embResp, maxSize, minSize) ==
    LET sents == Sentences(text) IN
    IF sents = <<>>
    THEN [outcome |-> "returned", committed |-> <<>>, chunks |-> <<>>, groups |-> <<>>]
    ELSE IF ~embResp.ok \/ Len(embResp.data) # Len(sents)
    THEN [outcome |-> "raised", committed |-> <<>>, chunks |-> <<>>, groups |-> <<>>]
    ELSE LET c == Committed(sents, embResp.data, maxSize, minSize)
         IN  [outcome |-> "returned", committed |-> c, chunks |-> Dedup(c),
              groups |-> Groups(sents, embResp.data, maxSize, minSize)]

-----------------------------------------------------------------------------
(* GraphDBProcessor._extract_entities_and_relationships                    *)
(*                                                                         *)
(* The answer of the extraction model is                                   *)
(*   [api, json, keys, entList, entities, relList, relationships]          *)
(* api: "ok" or "error" (the completion call raised); json: "invalid" (not *)
(* JSON), "other" (JSON, not an object) or "object"; keys: both keys are   *)
(* present; entList, relList: the value under the key is a list, and then *)
(* entities, relationships are its items.                                  *)
(* An item's shape tells what the JSON value is: "ok", "notdict" (not an   *)
(* object), "nokeys" (a required key is missing), and for a relationship   *)
(* "typenotstr" (its type is not a string, so .upper() raises).            *)

EmptyGraphData == [entities |-> <<>>, relationships |-> <<>>]

\* str.upper() on the relationship types of the model
Upper(t) == IF t = "works_for" THEN "WORKS_FOR" ELSE t

\* the entity loop (lines 114-122): TRUE when no entity makes it return
RECURSIVE EntitiesPass(_, _)
EntitiesPass(ents, k) ==
    IF k > Len(ents) THEN TRUE
    ELSE IF ents[k].shape = "notdict" THEN FALSE
    ELSE IF ents[k].shape = "nokeys" THEN FALSE
    ELSE EntitiesPass(ents, k + 1)     \* an unexpected type is only logged

\* {e["id"] for e in entities}
EntityIdsOf(ents) == {ents[k].id : k \in 1..Len(ents)}

\* a slip: "and" for "or" in the test of line 137
EitherEndpointKnown(rel, ids) == rel.source \in ids \/ rel.target \in ids

\* the negation of line 137's test
EndpointsKnown(rel, ids) == rel.source \in ids /\ rel.target \in ids

\* the relationship loop (lines 129-140): "pass", "return" (an early return
\* of the empty result) or "raise" (.upper() on a type that is no string)
RECURSIVE RelationshipsPass(_, _, _)
RelationshipsPass(relsIn, ents, k) ==
    IF k > Len(relsIn) THEN "pass"
    ELSE IF relsIn[k].shape = "notdict" THEN "return"
    ELSE IF relsIn[k].shape = "nokeys" THEN "return"
    ELSE IF ~EndpointsKnown(relsIn[k], EntityIdsOf(ents)) THEN "return"
    ELSE IF relsIn[k].shape = "typenotstr" THEN "raise"
    ELSE RelationshipsPass(relsIn, ents, k + 1)

\* the try block (lines 44-143): [raised, value]
ExtractBody(resp) ==
    IF resp.api = "error" THEN [raised |-> TRUE, value |-> EmptyGraphData]
    ELSE IF resp.json = "invalid" THEN [raised |-> TRUE, value |-> EmptyGraphData]
    ELSE IF resp.json # "object" THEN [raised |-> FALSE, value |-> EmptyGraphData]
    ELSE IF ~resp.keys THEN [raised |-> FALSE, value |-> EmptyGraphData]
    ELSE IF ~resp.entList THEN [raised |-> FALSE, value |-> EmptyGraphData]
    ELSE IF ~EntitiesPass(resp.entities, 1) THEN [raised |-> FALSE, value |-> EmptyGraphData]
    ELSE IF ~resp.relList THEN [raised |-> FALSE, value |-> EmptyGraphData]
    ELSE LET verdict == RelationshipsPass(resp.relationships, resp.entities, 1) IN
         IF verdict = "raise" THEN [raised |-> TRUE, value |-> EmptyGraphData]
         ELSE IF verdict = "return" THEN [raised |-> FALSE, value |-> EmptyGraphData]
         ELSE [raised |-> FALSE,
               value |-> [entities |-> [k \in 1..Len(resp.entities) |->
                                          [id |-> resp.entities[k].id,
                                           type |-> resp.entities[k].type]],
                          relationships |-> [k \in 1..Len(resp.relationships) |->
                                          [source |-> resp.relationships[k].source,
                                           target |-> resp.relationships[k].target,
                                           type |-> Upper(resp.relationships[k].type)]]]]

\* the whole method: both except clauses (lines 144-149) return the empty
\* result, so the caller sees a value in every case
ExtractEntitiesAndRelationships(resp) ==
    LET b == ExtractBody(resp)
    IN  [outcome |-> "returned",
         value |-> IF b.raised THEN EmptyGraphData ELSE b.value]

-----------------------------------------------------------------------------
(* VectorDBProcessor: ingestion and deletion.  A store value is            *)
(* [points, next]; an effect is [outcome, points, next, calls, ...].       *)

Min(a, b) == IF a < b THEN a ELSE b

\* the inner loop (lines 107-124) over one batch: st = [pending, seen, next];
\* i0 is the batch's offset i, j the position in the batch, both from 0
RECURSIVE BatchPoints(_, _, _, _, _)
BatchPoints(batch, i0, j, file, st) ==
    IF j >= Len(batch) THEN st
    ELSE LET chunk == batch[j + 1] IN
         IF chunk \in st.seen THEN BatchPoints(batch, i0, j + 1, file, st)
         ELSE BatchPoints(batch, i0, j + 1, file,
                  [pending |-> st.pending \cup
                       {[id |-> st.next + 1, file |-> file, text |-> chunk,
                         chunk_id |-> i0 + j]},
                   seen |-> st.seen \cup {chunk},
                   next |-> st.next + 1])

\* a slip: the points of a filename that is stored already are skipped
UpsertNewFilesOnly(pts, new) ==
    pts \cup {q \in new : \A p \in pts : p.file # q.file}

\* qdrant_client.upsert: a point replaces the stored point of the same id
Upsert(pts, new) == {p \in pts : \A q \in new : q.id # p.id} \cup new

\* the outer loop (lines 103-128) from offset i (from 0); fail names the call
\* that raises in a batch: "embed", "upsert" or neither
RECURSIVE StoreBatches(_, _, _, _, _)
StoreBatches(chunks, i, file, fail, acc) ==
    IF i >= Len(chunks) THEN acc
    ELSE LET batch == SubSeq(chunks, i + 1, Min(i + BatchSize, Len(chunks)))
             st == BatchPoints(batch, i, 0, file,
                               [pending |-> {}, seen |-> acc.seen, next |-> acc.next])
         IN  IF fail = "embed" THEN [acc EXCEPT !.outcome = "raised"]
             ELSE IF st.pending = {}
                  THEN StoreBatches(chunks, i + BatchSize, file, fail,
                                    [acc EXCEPT !.seen = st.seen, !.next = st.next])
             ELSE IF fail = "upsert" THEN [acc EXCEPT !.outcome = "raised"]
             ELSE StoreBatches(chunks, i + BatchSize, file, fail,
                               [acc EXCEPT !.points = Upsert(@, st.pending),
                                           !.seen = st.seen, !.next = st.next])

\* VectorDBProcessor.process_and_store_pdf.  chunked is what _chunk_text made
\* of the file's text (line 98).  fail names the external call that raises:
\* "collection" (_ensure_collection_exists), "pdf" (extract_pdf_text),
\* "embed" or "upsert" in the batch loop, or "none".
VectorIngest(store, file, chunked, fail) ==
    LET start == [outcome |-> "returned", points |-> store.points, next |-> store.next,
                  seen |-> {}]
    IN  IF fail \in {"collection", "pdf"} \/ chunked.outcome = "raised"
        THEN [start EXCEPT !.outcome = "raised"]
        ELSE StoreBatches(chunked.chunks, 0, file, fail, start)

\* a slip: the deletion by point id, of the first point of the file only
VectorDeleteOne(store, filename, fails) ==
    LET mine == {p \in store.points : p.file = filename}
        first == {p \in mine : \A q \in mine : p.id <= q.id}
    IN  IF fails
        THEN [outcome |-> "raised", points |-> store.points,
              status |-> "none", calls |-> <<"qdrant.delete">>]
        ELSE [outcome |-> "returned", points |-> store.points \ first,
              status |-> "Deleted points for file", calls |-> <<"qdrant.delete">>]

\* VectorDBProcessor.delete_file_points: qdrant_client.delete with the filter
\* original_file_name = filename; nothing catches a failure of the call
VectorDelete(store, filename, fails) ==
    IF fails
    THEN [outcome |-> "raised", points |-> store.points,
          status |-> "none", calls |-> <<"qdrant.delete">>]
    ELSE [outcome |-> "returned",
          points |-> {p \in store.points : p.file # filename},
          status |-> "Deleted points for file", calls |-> <<"qdrant.delete">>]

\* VectorDBProcessor.get_processed_files: the scroll loop of lines 173-192
\* visits every point page by page and collects original_file_name; nothing
\* catches a failure of a scroll call
VectorFiles(store, fails) ==
    IF fails THEN [outcome |-> "raised", files |-> {}]
    ELSE [outcome |-> "returned", files |-> {p.file : p \in store.points}]

-----------------------------------------------------------------------------
(* GraphDBProcessor: ingestion and deletion.  A graph value is             *)
(* [docs, entities, mentions, rels, nextDoc, nextNode].  Every session.run *)
(* is an auto-commit transaction of its own.                               *)

\* a slip: the Document written only when an entity was extracted
StatementsWhenEntities(data) ==
    IF data.entities = <<>> THEN <<>>
    ELSE <<[kind |-> "doc"]>>
           \o [k \in 1..Len(data.entities) |->
                 [kind |-> "entity", id |-> data.entities[k].id,
                  type |-> data.entities[k].type]]
           \o [k \in 1..Len(data.relationships) |->
                 [kind |-> "rel", source |-> data.relationships[k].source,
                  target |-> data.relationships[k].target,
                  type |-> data.relationships[k].type]]

\* the write statements of process_and_store_pdf, in order (lines 166-186)
IngestStatements(data) ==
    <<[kind |-> "doc"]>>
      \o [k \in 1..Len(data.entities) |->
            [kind |-> "entity", id |-> data.entities[k].id, type |-> data.entities[k].type]]
      \o [k \in 1..Len(data.relationships) |->
            [kind |-> "rel", source |-> data.relationships[k].source,
             target |-> data.relationships[k].target,
             type |-> data.relationships[k].type]]

\* a slip: CREATE for MERGE, a new Entity node whatever the store holds
CreateEntity(g, id, type, docId) ==
    [g EXCEPT !.entities = @ \cup {[n |-> g.nextNode + 1, id |-> id, type |-> type]},
              !.nextNode = @ + 1,
              !.mentions = @ \cup {[e |-> g.nextNode + 1, d |-> docId]}]

\* MERGE (e:Entity {id}) SET e.type MERGE (d:Document {id: doc_id})
\* MERGE (e)-[:MENTIONED_IN]->(d)   (lines 173-178).  The Document of doc_id
\* exists: the statement before created it.
MergeEntity(g, id, type, docId) ==
    LET matched == {e \in g.entities : e.id = id} IN
    IF matched = {} THEN CreateEntity(g, id, type, docId)
    ELSE [g EXCEPT !.entities = (@ \ matched) \cup {[e EXCEPT !.type = type] : e \in matched},
                   !.mentions = @ \cup {[e |-> e.n, d |-> docId] : e \in matched}]

\* MATCH (source:Entity {id}) MATCH (target:Entity {id})
\* MERGE (source)-[:RELATED {type}]->(target)   (lines 182-186)
MergeRelated(g, source, target, type) ==
    [g EXCEPT !.rels = @ \cup
        {[src |-> a.n, type |-> type, tgt |-> b.n] :
            a \in {e \in g.entities : e.id = source},
            b \in {e \in g.entities : e.id = target}}]

ApplyStatement(g, stmt, file, docId) ==
    IF stmt.kind = "doc"
    THEN [g EXCEPT !.docs = {d \in @ : d.id # docId} \cup {[id |-> docId, filename |-> file]}]
    ELSE IF stmt.kind = "entity" THEN MergeEntity(g, stmt.id, stmt.type, docId)
    ELSE MergeRelated(g, stmt.source, stmt.target, stmt.type)

RECURSIVE ApplyStatements(_, _, _, _, _)
ApplyStatements(g, stmts, n, file, docId) ==
    IF n = 0 \/ stmts = <<>> THEN g
    ELSE ApplyStatements(ApplyStatement(g, Head(stmts), file, docId),
                         Tail(stmts), n - 1, file, docId)

\* GraphDBProcessor.process_and_store_pdf.  resp is the extraction model's
\* answer; okStmts is the number of session.run calls that succeed: the write
\* statements, then the two verification reads (lines 188-202).  A failing
\* call raises (line 206-208); the statements before it are committed.
GraphIngest(g, file, resp, okStmts) ==
    LET docId == g.nextDoc + 1
        data == ExtractEntitiesAndRelationships(resp).value
        stmts == IngestStatements(data)
        after == ApplyStatements([g EXCEPT !.nextDoc = IF okStmts = 0 THEN @ ELSE docId],
                                 stmts, okStmts, file, docId)
    IN  [outcome |-> IF okStmts >= Len(stmts) + 2 THEN "returned" ELSE "raised",
         graph |-> after,
         data |-> data,
         calls |-> <<"pdf", "llm.extract">>
                     \o [k \in 1..Min(okStmts + 1, Len(stmts) + 2) |-> "neo4j.run"]]

\* the number of session.run calls of an ingestion of this answer
StatementCount(resp) ==
    Len(IngestStatements(ExtractEntitiesAndRelationships(resp).value)) + 2

\* a slip: DETACH DELETE for DELETE, so that the statement always commits
\* and takes the MENTIONED_IN edges of the Documents with them
DetachDelete(g, filename, fail, reported) ==
    LET matchedDocs == {d \in g.docs : d.filename = filename}
        matchedEnts == {e \in g.entities :
                          \E d \in matchedDocs : [e |-> e.n, d |-> d.id] \in g.mentions}
        leftMentions == {m \in g.mentions : \A d \in matchedDocs : m.d # d.id}
        delEnts == {e \in matchedEnts : ~\E m \in leftMentions : m.e = e.n}
    IN  IF fail = "neo4j"
        THEN [graph |-> g, status |-> "Error deleting file", committed |-> FALSE]
        ELSE [graph |-> [g EXCEPT !.docs = @ \ matchedDocs,
                                  !.mentions = leftMentions,
                                  !.rels = {r \in @ : \A e \in matchedEnts :
                                                        r.src # e.n /\ r.tgt # e.n},
                                  !.entities = @ \ delEnts],
              status |-> "Deleted graph data for file", committed |-> TRUE]

\* a slip: as DetachDelete, and the RELATED edges left out of the DELETE
DeleteKeepingRelated(g, filename, fail, reported) ==
    [DetachDelete(g, filename, fail, reported) EXCEPT !.graph.rels = g.rels]

\* GraphDBProcessor.delete_file_points: the one statement of lines 344-352,
\*   MATCH (d:Document {filename}) OPTIONAL MATCH (d)<-[:MENTIONED_IN]-(e:Entity)
\*   OPTIONAL MATCH (e)-[r:RELATED]-() DELETE d, r
\*   WITH e WHERE NOT (e)-[:MENTIONED_IN]->() DELETE e
\* It deletes the matched Documents and the RELATED edges of their Entities,
\* and no MENTIONED_IN edge: DELETE is not DETACH DELETE.  Neo4j refuses to
\* commit a transaction that deletes a node which still has a relationship,
\* and rolls it back.
\* fail = "neo4j": the call itself raises.  reported: whether the driver hands
\* a refused commit to the caller as an exception (it arrives when the result
\* is consumed, as the session closes).
GraphDelete(g, filename, fail, reported) ==
    LET matchedDocs == {d \in g.docs : d.filename = filename}
        matchedEnts == {e \in g.entities :
                          \E d \in matchedDocs : [e |-> e.n, d |-> d.id] \in g.mentions}
        delRels == {r \in g.rels : \E e \in matchedEnts : r.src = e.n \/ r.tgt = e.n}
        leftMentions == g.mentions
        leftRels == g.rels \ delRels
        delEnts == {e \in matchedEnts : ~\E m \in leftMentions : m.e = e.n}
        commits ==
            /\ \A d \in matchedDocs : ~\E m \in leftMentions : m.d = d.id
            /\ \A e \in delEnts :
                 /\ ~\E m \in leftMentions : m.e = e.n
                 /\ ~\E r \in leftRels : r.src = e.n \/ r.tgt = e.n
        deleted == [g EXCEPT !.docs = @ \ matchedDocs,
                             !.rels = leftRels,
                             !.entities = @ \ delEnts]
    IN  IF fail = "neo4j"
        THEN [graph |-> g, status |-> "Error deleting file", committed |-> FALSE]
        ELSE IF commits
        THEN [graph |-> deleted, status |-> "Deleted graph data for file", committed |-> TRUE]
        ELSE [graph |-> g,
              status |-> IF reported THEN "Error deleting file"
                         ELSE "Deleted graph data for file",
              committed |-> FALSE]

\* GraphDBProcessor.get_processed_files: the filenames of the Document
\* nodes; the except clause of lines 337-339 answers a failure with set()
GraphFiles(g, fails) ==
    IF fails THEN {} ELSE {d.filename : d \in g.docs}

\* a slip: union for intersection
ListedByEither(vector_files, graph_files) == vector_files \cup graph_files

\* vector_files.intersection(graph_files) of line 54
ListedByBoth(vector_files, graph_files) == vector_files \cap graph_files

-----------------------------------------------------------------------------
(* GraphDBProcessor.query: the validation of the generated query           *)
(* (lines 248-290).  A query text is the sequence of its tokens: words,    *)
(* and the punctuation marks of Punctuation.  A substring test of the code *)
(* is the same test on tokens.                                             *)

Punctuation == {"(", ")", "[", "]", "{", "}", ":", ",", ".", "-", "->", "=", "'"}

IsWord(tok) == tok \notin Punctuation

\* str.lower() on the tokens of the model that hold an upper-case letter
LowerTable ==
    [MATCH |-> "match", OPTIONAL |-> "optional", WHERE |-> "where",
     CONTAINS |-> "contains", RETURN |-> "return", AS |-> "as",
     CREATE |-> "create", DELETE |-> "delete", DETACH |-> "detach",
     Entity |-> "entity", RELATED |-> "related", Person |-> "person",
     TechCorp |-> "techcorp", Alice |-> "alice",
     entityName |-> "entityname", relationshipType |-> "relationshiptype"]

Lower(tok) == IF tok \in DOMAIN LowerTable THEN LowerTable[tok] ELSE tok

LowerAll(toks) == [k \in 1..Len(toks) |-> Lower(toks[k])]

\* line 249: the keywords a query may start with (startswith sees the case)
LeadingKeywords == {"MATCH", "WITH", "MERGE", "CREATE", "RETURN"}

\* the words line 284 keeps out of the second pass
StopWords == {"match", "optional", "related", "mentioned_in", "entity", "document",
              "name", "where", "contains"}

\* the first index of x in toks, 0 when there is none (str.find: -1)
Find(toks, x) ==
    IF \E k \in 1..Len(toks) : toks[k] = x
    THEN CHOOSE k \in 1..Len(toks) : toks[k] = x /\ \A j \in 1..(k - 1) : toks[j] # x
    ELSE 0

\* cypher_query.upper().find("RETURN"), 0 when RETURN does not occur
ReturnIndex(query) == Find(LowerAll(query), "return")

\* line 253: cypher_query[find("RETURN"):].lower(); without a RETURN the
\* slice starts at -1 and is the last character of the text
ReturnClause(query) ==
    IF ReturnIndex(query) = 0
    THEN LowerAll(SubSeq(query, Len(query), Len(query)))
    ELSE LowerAll(SubSeq(query, ReturnIndex(query), Len(query)))

\* line 276: cypher_query[:find("RETURN")].lower(); without a RETURN the
\* slice ends at -1: everything but the last character
MatchClause(query) ==
    IF ReturnIndex(query) = 0
    THEN LowerAll(SubSeq(query, 1, Len(query) - 1))
    ELSE LowerAll(SubSeq(query, 1, ReturnIndex(query) - 1))

\* str.split(','), at most as deep as the clause has commas
RECURSIVE SplitOnComma(_)
SplitOnComma(toks) ==
    IF Find(toks, ",") = 0 THEN <<toks>>
    ELSE <<SubSeq(toks, 1, Find(toks, ",") - 1)>>
           \o SplitOnComma(SubSeq(toks, Find(toks, ",") + 1, Len(toks)))

\* lines 262-272: the variable a part of the RETURN clause stands for
PartVariable(part) ==
    LET bare == SelectSeq(part, LAMBDA t : t # "return")
        asAt == IF \E k \in 2..(Len(bare) - 1) : bare[k] = "as"
                THEN CHOOSE k \in 2..(Len(bare) - 1) :
                        bare[k] = "as" /\ \A j \in 2..(k - 1) : bare[j] # "as"
                ELSE 0
        var == IF asAt = 0 THEN bare ELSE SubSeq(bare, 1, asAt - 1)
    IN  IF Len(var) >= 2 /\ var[1] = "type" /\ var[2] = "("
        THEN IF Find(var, ")") = 0 THEN SubSeq(var, 3, Len(var) - 1)
             ELSE SubSeq(var, 3, Find(var, ")") - 1)
        ELSE IF Find(var, ".") # 0 THEN SubSeq(var, 1, Find(var, ".") - 1)
        ELSE var

\* lines 254-274: return_vars, each variable the tokens of its text
ReturnVars(query) ==
    LET parts == SplitOnComma(ReturnClause(query))
    IN  {PartVariable(parts[k]) : k \in {j \in 1..Len(parts) : parts[j] # <<>>}}
          \ {<<>>, <<"type">>, <<"as">>}

\* a slip: the second pass of lines 282-286 left out
DefinedByPatternOnly(query) ==
    LET mc == MatchClause(query)
    IN  {mc[k] : k \in {j \in 1..(Len(mc) - 1) :
                          IsWord(mc[j]) /\ mc[j + 1] \in {":", "{", "-", "->", ")"}}}

\* lines 277-286: defined_vars.  The first pass takes the words that stand
\* before ':', '{', '-' or ')'; the second every word that is no stop word.
DefinedVars(query) ==
    LET mc == MatchClause(query)
    IN  DefinedByPatternOnly(query)
          \cup {mc[k] : k \in {j \in 1..Len(mc) : IsWord(mc[j]) /\ mc[j] \notin StopWords}}

\* lines 288-290
UndefinedVars(query) == ReturnVars(query) \ {<<w>> : w \in DefinedVars(query)}

\* lines 249-290: TRUE when neither test raises ValueError
PassesValidation(query) ==
    /\ query # <<>> /\ query[1] \in LeadingKeywords
    /\ UndefinedVars(query) = {}

-----------------------------------------------------------------------------
(* The texts the validation is applied to.                                *)

\* the clauses before RETURN of the texts the query model generates, each
\* with the variables it binds
MatchClauses ==
    {[text |-> <<"MATCH", "(", "e", ":", "Entity", "{", "type", ":",
                 "'", "Person", "'", "}", ")">>,
      bound |-> {"e"}, effect |-> "read"],
     [text |-> <<"MATCH", "(", "e", ":", "Entity", ")", "-", "[", "r", ":", "RELATED", "]",
                 "->", "(", "t", ":", "Entity", "{", "name", ":", "'", "TechCorp", "'",
                 "}", ")", "WHERE", "e", ".", "name", "CONTAINS", "'", "Alice", "'">>,
      bound |-> {"e", "r", "t"}, effect |-> "read"],
     [text |-> <<"CREATE", "(", "n", ":", "Entity", "{", "id", ":", "'", "x", "'", "}", ")">>,
      bound |-> {"n"}, effect |-> "x"]}

EntityName == [text |-> <<"e", ".", "name", "AS", "entityName">>, idents |-> {"e"}]

\* the items of their RETURN clauses, each with the variables it refers to
ReturnItems ==
    {EntityName,
     [text |-> <<"type", "(", "r", ")", "AS", "relationshipType">>, idents |-> {"r"}],
     [text |-> <<"person", ".", "name">>, idents |-> {"person"}],
     [text |-> <<"count", "(", "e", ")">>, idents |-> {"e"}],
     [text |-> <<"n">>, idents |-> {"n"}],
     [text |-> <<"x">>, idents |-> {"x"}]}

\* RETURN clauses of one item, and of e.name AS entityName and a second item
ReturnLists == {<<i>> : i \in ReturnItems} \cup {<<EntityName, i>> : i \in ReturnItems}

ItemsText(items) ==
    IF Len(items) = 1 THEN items[1].text
    ELSE items[1].text \o <<",">> \o items[2].text

NoQuery == [text |-> <<>>, bound |-> {}, projected |-> {}, effect |-> "read"]

\* the texts the query model generates: the clauses above with the RETURN
\* clauses above, a query in lower case, one that starts with OPTIONAL, and
\* one without a RETURN clause
GeneratedQueries ==
    {[text |-> m.text \o <<"RETURN">> \o ItemsText(l),
      bound |-> m.bound,
      projected |-> UNION {l[k].idents : k \in 1..Len(l)},
      effect |-> m.effect] : m \in MatchClauses, l \in ReturnLists}
    \cup
    {[NoQuery EXCEPT !.text = <<"match", "(", "e", ")", "return", "e">>,
                     !.bound = {"e"}, !.projected = {"e"}],
     [NoQuery EXCEPT !.text = <<"OPTIONAL", "MATCH", "(", "e", ":", "Entity", ")",
                                "RETURN", "e", ".", "name">>,
                     !.bound = {"e"}, !.projected = {"e"}],
     [NoQuery EXCEPT !.text = <<"MATCH", "(", "e", ":", "Entity", ")">>,
                     !.bound = {"e"}]}

\* the verdict of lines 249-290 on each of these texts, worked out once
Validation == [text \in {q.text : q \in GeneratedQueries} |-> PassesValidation(text)]

-----------------------------------------------------------------------------
(* The query methods.  An answer is the sequence of its words; a result is *)
(* [outcome, answer, chunks, calls, found, failed], calls the external     *)
(* calls made.                                                             *)

\* limit=5 of query_points
SearchLimit == 5

\* toks holds sub as a run of neighbouring words (Python's  sub in toks)
Contains(toks, sub) ==
    \E k \in 0..(Len(toks) - Len(sub)) : SubSeq(toks, k + 1, k + Len(sub)) = sub

\* found: the number of points or rows the store answered with, -1 when no
\* answer of the store was reached; failed: an external call raised
Raised(calls, found) ==
    [outcome |-> "raised", answer |-> <<>>, chunks |-> <<>>, calls |-> calls,
     found |-> found, failed |-> TRUE]

Returned(answer, chunks, calls, found) ==
    [outcome |-> "returned", answer |-> answer, chunks |-> chunks, calls |-> calls,
     found |-> found, failed |-> FALSE]

\* a slip: the test of line 140 left out
NeverNothingFound(search_results) == FALSE

\* line 140: not search_results
NothingFound(search_results) == search_results = <<>>

\* VectorDBProcessor.query.  env.fail names the external call that raises
\* ("embed", "search", "llm") or is "none"; env.results are the points
\* query_points answers with, env.reply the answer model's words.  Nothing
\* in the method catches an exception.
VectorQuery(env) ==
    IF env.fail = "embed" THEN Raised(<<"embed">>, -1)
    ELSE IF env.fail = "search" THEN Raised(<<"embed", "qdrant.query_points">>, -1)
    ELSE IF NothingFound(env.results)
    THEN Returned(<<"No relevant information found.">>, <<>>,
                  <<"embed", "qdrant.query_points">>, Len(env.results))
    ELSE IF env.results = <<>>   \* search_results[0] of line 146: IndexError
    THEN [Raised(<<"embed", "qdrant.query_points">>, 0) EXCEPT !.failed = FALSE]
    ELSE IF env.fail = "llm"
    THEN Raised(<<"embed", "qdrant.query_points", "llm.answer">>, Len(env.results))
    ELSE Returned(IF Contains(env.reply, <<"context", "does", "not">>) THEN env.reply
                  ELSE env.reply \o <<"[Source:", env.results[1].file, "]">>,
                  [k \in 1..Len(env.results) |-> env.results[k].text],
                  <<"embed", "qdrant.query_points", "llm.answer">>, Len(env.results))

\* "\n".join(str(record) for record in records) of line 296; a record is
\* written as the text str makes of it
Context(records) ==
    [k \in 1..(2 * Len(records) - 1) |->
        IF k % 2 = 1 THEN records[(k + 1) \div 2] ELSE "\n"]

\* session.run(cypher_query) of line 293 on a query that reached it.
\* query.effect is "read", or the id of the Entity the query creates.  Neo4j
\* refuses a query that refers to a variable it does not bind; a CREATE of
\* an Entity writes the node unless the uniqueness constraint on Entity.id
\* (line 33) forbids it; a reading query yields the rows it matches.
RunQuery(g, query, rows) ==
    IF ~(query.projected \subseteq query.bound)
    THEN [ok |-> FALSE, graph |-> g, records |-> <<>>]
    ELSE IF query.effect = "read"
    THEN [ok |-> TRUE, graph |-> g, records |-> rows]
    ELSE IF \E e \in g.entities : e.id = query.effect
    THEN [ok |-> FALSE, graph |-> g, records |-> <<>>]
    ELSE [ok |-> TRUE,
          graph |-> [g EXCEPT !.entities = @ \cup {[n |-> g.nextNode + 1,
                                                     id |-> query.effect,
                                                     type |-> "none"]},
                              !.nextNode = @ + 1],
          records |-> <<"{'n': {'id': 'x'}}">>]

\* GraphDBProcessor.query.  env.fail names the external call that raises
\* ("llm" the query generation, "neo4j" the execution, "answer" the answer
\* generation) or is "none"; env.query is the text the model generated,
\* env.rows what the store matches, env.reply the answer model's words.
\* The except clause of lines 319-321 turns every exception into an answer.
\* The result carries the graph the call leaves behind.
GraphQuery(g, env) ==
    LET Failed(calls, graph, found, failed) ==
            [outcome |-> "returned", answer |-> <<"Graph query failed:", "error">>,
             chunks |-> <<>>, calls |-> calls, found |-> found, failed |-> failed,
             graph |-> graph]
        run == RunQuery(g, env.query, env.rows)
    IN  IF env.fail = "llm" THEN Failed(<<"llm.cypher">>, g, -1, TRUE)
        ELSE IF ~Validation[env.query.text]
        THEN Failed(<<"llm.cypher">>, g, -1, FALSE)
        ELSE IF env.fail = "neo4j" \/ ~run.ok
        THEN Failed(<<"llm.cypher", "neo4j.run">>, g, -1, TRUE)
        ELSE IF Context(run.records) = <<>>
        THEN [outcome |-> "returned",
              answer |-> <<"No relevant information found in graph.">>,
              chunks |-> <<>>, calls |-> <<"llm.cypher", "neo4j.run">>,
              found |-> Len(run.records), failed |-> FALSE, graph |-> run.graph]
        ELSE IF env.fail = "answer"
        THEN Failed(<<"llm.cypher", "neo4j.run", "llm.graph_answer">>, run.graph,
                    Len(run.records), TRUE)
        ELSE [outcome |-> "returned", answer |-> env.reply, chunks |-> run.records,
              calls |-> <<"llm.cypher", "neo4j.run", "llm.graph_answer">>,
              found |-> Len(run.records), failed |-> FALSE, graph |-> run.graph]

\* a slip: the two evidence lists merged into one
MergedEvidence(vector_result, graph_result) ==
    [vector |-> vector_result.chunks \o graph_result.chunks, graph |-> <<>>]

\* lines 45-48: the "chunks" of the hybrid result
HybridEvidence(vector_result, graph_result) ==
    [vector |-> vector_result.chunks, graph |-> graph_result.chunks]

\* HybridProcessor.query from line 25 on: both retrievers have returned.
\* fuse.fail: the fusing model call raises; nothing catches it.
HybridFuse(vector_result, graph_result, fuse) ==
    LET calls == vector_result.calls \o graph_result.calls \o <<"llm.fuse">> IN
    IF fuse.fail
    THEN [outcome |-> "raised", answer |-> <<>>,
          chunks |-> [vector |-> <<>>, graph |-> <<>>], calls |-> calls]
    ELSE [outcome |-> "returned", answer |-> fuse.reply,
          chunks |-> HybridEvidence(vector_result, graph_result), calls |-> calls]

-----------------------------------------------------------------------------
(* The variables a specification does not use stay at these values.        *)

NoChunkCall == [pc |-> "idle", text |-> <<>>, embResp |-> [ok |-> TRUE, data |-> <<>>],
                maxSize |-> 0, minSize |-> 0,
                outcome |-> "none", committed |-> <<>>, chunks |-> <<>>,
                groups |-> <<>>]

NoExtractCall == [pc |-> "idle",
                  resp |-> [api |-> "error", json |-> "invalid", keys |-> FALSE,
                            entList |-> FALSE, entities |-> <<>>,
                            relList |-> FALSE, relationships |-> <<>>],
                  outcome |-> "none", value |-> EmptyGraphData]

\* extraction: what became of the extraction model's answer in an ingestion
\* ("kept" or "discarded"), ids: the entity ids it handed on; failed: an external call of the operation raised;
\* files, vfiles, gfiles: what a listing returned and what the two stores
\* listed; removed: the points the file had when its deletion was called
NoCall == [op |-> "none", file |-> "none", outcome |-> "none",
           vector |-> "skipped", graph |-> "skipped", status |-> <<>>, calls |-> <<>>,
           extraction |-> "none", ids |-> {}, failed |-> FALSE,
           files |-> {}, vfiles |-> {}, gfiles |-> {}, removed |-> 0]

\* no vector ingestion under way.  running: per thread, the ingestion it is
\* in ([file, chunks, i, seen, overlap], i the offset of the next batch) or
\* Idle; started: the ingestions begun; done: per file, the ingestions that
\* returned since the file's last deletion; mixed: per file, whether one of
\* them ran while another ingestion of the file was under way
Idle == [file |-> "none", chunks |-> <<>>, i |-> 0, seen |-> {}, overlap |-> FALSE]
NoJobs == [running |-> [t \in 1..MaxJobs |-> Idle], started |-> 0,
           done |-> [f \in Files |-> 0], mixed |-> [f \in Files |-> FALSE]]

EmptyStores ==
    /\ jobs = NoJobs
    /\ points = {}
    /\ docs = {}
    /\ entities = {}
    /\ mentions = {}
    /\ rels = {}
    /\ nextId = [point |-> 0, doc |-> 0, node |-> 0]

-----------------------------------------------------------------------------
(* SpecChunk: every call of _chunk_text on a text of at most MaxPieces     *)
(* pieces, with every answer of the embedding service.                     *)

\* the answers of the one batched embedding call for n sentences: one vector
\* per sentence, a failure, or an answer with no vector at all
EmbedAnswers(n) ==
    IF n = 0 THEN {[ok |-> TRUE, data |-> <<>>]}
    ELSE {[ok |-> TRUE, data |-> d] : d \in [1..n -> Vectors]}
           \cup {[ok |-> TRUE, data |-> <<>>], [ok |-> FALSE, data |-> <<>>]}

ChunkInit ==
    /\ \E text \in Texts, maxSize \in MaxChunkSizes, minSize \in MinChunkSizes :
         \E embResp \in EmbedAnswers(Len(Sentences(text))) :
            ck = [NoChunkCall EXCEPT !.pc = "called", !.text = text,
                                     !.embResp = embResp,
                                     !.maxSize = maxSize, !.minSize = minSize]
    /\ ex = NoExtractCall
    /\ last = NoCall
    /\ EmptyStores

ChunkTextCall ==
    /\ ck.pc = "called"
    /\ LET r == ChunkText(ck.text, ck.embResp, ck.maxSize, ck.minSize)
       IN  ck' = [ck EXCEPT !.pc = "done", !.outcome = r.outcome,
                            !.committed = r.committed, !.chunks = r.chunks,
                            !.groups = r.groups]
    /\ UNCHANGED <<jobs, ex, points, docs, entities, mentions, rels, nextId, last>>

SpecChunk == ChunkInit /\ [][ChunkTextCall]_vars

\* the embedding service answered with one vector per sentence
EmbeddingGiven ==
    ck.embResp.ok /\ Len(ck.embResp.data) = Len(Sentences(ck.text))

HasVisibleChar(text) == \E i \in 1..Len(text) : ~IsSpace(text[i])

\* C3 as stated: for every non-empty text and every embedding function,
\* _chunk_text returns at least one chunk.
C3_AnyNonEmptyText ==
    (ck.pc = "done" /\ ck.text # <<>> /\ EmbeddingGiven)
        => (ck.outcome = "returned" /\ Len(ck.chunks) >= 1)

\* C3 amended: for every text that holds a character other than whitespace,
\* and an embedding answer of one vector per sentence, _chunk_text returns at
\* least one chunk, also when no chunk reaches min_chunk_size.
C3_AtLeastOneChunk ==
    (ck.pc = "done" /\ HasVisibleChar(ck.text) /\ EmbeddingGiven)
        => (ck.outcome = "returned" /\ Len(ck.chunks) >= 1)

\* two sentences or more, every group of them shorter than min_chunk_size,
\* and still one chunk comes back
C3_Witness ==
    /\ ck.pc = "done" /\ EmbeddingGiven
    /\ Len(Sentences(ck.text)) >= 2
    /\ Len(ck.chunks) = 1
    /\ Len(ck.chunks[1]) < ck.minSize

FirstIndex(seq, x) == CHOOSE k \in 1..Len(seq) : seq[k] = x /\ \A j \in 1..(k - 1) : seq[j] # x

\* C4: the returned sequence holds every committed chunk text exactly once,
\* in the order of the texts' first occurrence among the committed chunks.
C4_DedupFirstOccurrence ==
    (ck.pc = "done" /\ ck.outcome = "returned") =>
        /\ \A i, j \in 1..Len(ck.chunks) : i # j => ck.chunks[i] # ck.chunks[j]
        /\ {ck.chunks[i] : i \in 1..Len(ck.chunks)}
             = {ck.committed[i] : i \in 1..Len(ck.committed)}
        /\ \A i, j \in 1..Len(ck.chunks) :
             i < j => FirstIndex(ck.committed, ck.chunks[i])
                        < FirstIndex(ck.committed, ck.chunks[j])

\* a chunk text was committed twice, between two different texts
C4_Witness ==
    /\ ck.pc = "done" /\ ck.outcome = "returned"
    /\ Len(ck.committed) > Len(ck.chunks)
    /\ Len(ck.chunks) >= 2

\* the text of the sentences first..last of a group, as " ".join makes it
GroupText(g) == Join(SubSeq(Sentences(ck.text), g.first, g.last))

KeptGroups == {k \in 1..Len(ck.groups) : ck.groups[k].kept}

\* C13: a sentence joins the current chunk only if the running length stays
\* within max_chunk_size and it is similar to the chunk's last sentence, so
\* every returned chunk of two or more sentences is no longer than
\* max_chunk_size and only a chunk of one sentence can be longer.
\* Violated: the running length counts the sentences and not the spaces
\* that join them, so a chunk of n sentences can be n - 1 characters longer
\* than max_chunk_size.
C13_MultiSentenceChunkBounded ==
    (ck.pc = "done" /\ ck.outcome = "returned") =>
        \A k \in KeptGroups :
            ck.groups[k].last > ck.groups[k].first =>
                /\ \E j \in 1..Len(ck.chunks) : ck.chunks[j] = GroupText(ck.groups[k])
                /\ Len(GroupText(ck.groups[k])) <= ck.maxSize

\* C14: every returned chunk has an accumulated length of min_chunk_size or
\* more, unless it is the only chunk and was committed at the end of the
\* input; a chunk closed inside the loop with a smaller accumulated length
\* is dropped, and its sentences are in no returned chunk.
C14_ShortChunksDropped ==
    (ck.pc = "done" /\ ck.outcome = "returned") =>
        /\ {ck.chunks[j] : j \in 1..Len(ck.chunks)}
             = {GroupText(ck.groups[k]) : k \in KeptGroups}
        /\ \A k \in KeptGroups :
             \/ ck.groups[k].len >= ck.minSize
             \/ ck.groups[k].trailing /\ KeptGroups = {k} /\ Len(ck.chunks) = 1
        /\ \A k \in 1..Len(ck.groups) :
             (~ck.groups[k].trailing /\ ck.groups[k].len < ck.minSize) =>
                /\ ~ck.groups[k].kept
                /\ \A h \in KeptGroups :
                     ck.groups[h].last < ck.groups[k].first
                       \/ ck.groups[h].first > ck.groups[k].last
        /\ \A k \in 1..Len(ck.groups) :
             ck.groups[k].len = Len(GroupText(ck.groups[k]))
                                  - (ck.groups[k].last - ck.groups[k].first)

\* a short chunk was dropped inside the loop and a later chunk was returned
C14_Witness ==
    /\ ck.pc = "done" /\ ck.outcome = "returned"
    /\ \E k \in 1..Len(ck.groups) :
         /\ ~ck.groups[k].trailing /\ ck.groups[k].len < ck.minSize
         /\ ~ck.groups[k].kept
         /\ \E h \in KeptGroups : h > k /\ ck.groups[h].len >= ck.minSize

-----------------------------------------------------------------------------
(* SpecExtract: every call of _extract_entities_and_relationships on an    *)
(* answer of at most MaxEntities entities and MaxRelationships             *)
(* relationships.                                                          *)

RECURSIVE SeqsUpTo(_, _)
SeqsUpTo(S, n) ==
    IF n = 0 THEN {<<>>}
    ELSE LET shorter == SeqsUpTo(S, n - 1)
         IN  shorter \cup {Append(s, x) : s \in {t \in shorter : Len(t) = n - 1}, x \in S}

EntityItems ==
    {[shape |-> "ok", id |-> i, type |-> t] : i \in EntityIds, t \in EntityTypes}
      \cup {[shape |-> sh, id |-> "x", type |-> "Person"] : sh \in {"notdict", "nokeys"}}

RelItems ==
    {[shape |-> "ok", source |-> a, target |-> b, type |-> t] :
        a \in EntityIds, b \in EntityIds, t \in RelTypes}
      \cup {[shape |-> "typenotstr", source |-> "x", target |-> "x", type |-> "works_for"]}
      \cup {[shape |-> sh, source |-> "x", target |-> "x", type |-> "works_for"] :
              sh \in {"notdict", "nokeys"}}

ObjectAnswers ==
    {[api |-> "ok", json |-> "object", keys |-> TRUE,
      entList |-> TRUE, entities |-> e, relList |-> TRUE, relationships |-> r] :
        e \in SeqsUpTo(EntityItems, MaxEntities),
        r \in SeqsUpTo(RelItems, MaxRelationships)}
      \cup {[api |-> "ok", json |-> "object", keys |-> TRUE,
              entList |-> FALSE, entities |-> <<>>, relList |-> TRUE, relationships |-> r] :
                r \in SeqsUpTo(RelItems, MaxRelationships)}
      \cup {[api |-> "ok", json |-> "object", keys |-> TRUE,
              entList |-> TRUE, entities |-> e, relList |-> FALSE, relationships |-> <<>>] :
                e \in SeqsUpTo(EntityItems, MaxEntities)}

ExtractAnswers ==
    ObjectAnswers
      \cup {[NoExtractCall.resp EXCEPT !.api = "ok", !.json = j] : j \in {"invalid", "other"}}
      \cup {[NoExtractCall.resp EXCEPT !.api = "ok", !.json = "object"],
            NoExtractCall.resp}

ExtractInit ==
    /\ \E resp \in ExtractAnswers :
         ex = [NoExtractCall EXCEPT !.pc = "called", !.resp = resp]
    /\ ck = NoChunkCall
    /\ last = NoCall
    /\ EmptyStores

ExtractCall ==
    /\ ex.pc = "called"
    /\ LET r == ExtractEntitiesAndRelationships(ex.resp)
       IN  ex' = [ex EXCEPT !.pc = "done", !.outcome = r.outcome, !.value = r.value]
    /\ UNCHANGED <<jobs, ck, points, docs, entities, mentions, rels, nextId, last>>

SpecExtract == ExtractInit /\ [][ExtractCall]_vars

\* the answer is an object with both lists
HasLists(resp) ==
    /\ resp.api = "ok" /\ resp.json = "object" /\ resp.keys
    /\ resp.entList /\ resp.relList

\* the ids of the answer's entities that have one
ListedIds(resp) ==
    {resp.entities[k].id : k \in {j \in 1..Len(resp.entities) : resp.entities[j].shape = "ok"}}

\* relationship k of the answer names a source or a target that is no listed id
Dangling(resp, k) ==
    /\ resp.relationships[k].shape \in {"ok", "typenotstr"}
    /\ \/ resp.relationships[k].source \notin ListedIds(resp)
       \/ resp.relationships[k].target \notin ListedIds(resp)

\* C1: when a relationship of the answer names a source or target that is no
\* entity id of the same answer, the call returns (raises nothing) and both
\* lists of the result are empty.
C1_DanglingDiscardsAll ==
    (/\ ex.pc = "done"
     /\ HasLists(ex.resp)
     /\ \E k \in 1..Len(ex.resp.relationships) : Dangling(ex.resp, k))
        => /\ ex.outcome = "returned"
           /\ ex.value.entities = <<>>
           /\ ex.value.relationships = <<>>

\* valid entities, a valid first relationship and a dangling second one: the
\* valid relationship and the entities are discarded with it
C1_Witness ==
    /\ ex.pc = "done"
    /\ HasLists(ex.resp)
    /\ Len(ex.resp.entities) >= 1
    /\ \A k \in 1..Len(ex.resp.entities) : ex.resp.entities[k].shape = "ok"
    /\ Len(ex.resp.relationships) = 2
    /\ ex.resp.relationships[1].shape = "ok" /\ ~Dangling(ex.resp, 1)
    /\ ex.resp.relationships[2].shape = "ok" /\ Dangling(ex.resp, 2)
    /\ ex.value = EmptyGraphData

-----------------------------------------------------------------------------
(* What ingestion reads.                                                   *)

\* a sentence exactly min_chunk_size long: c ... c .
LongSentence(c) ==
    [i \in 1..DefaultMinChunkSize |-> IF i < DefaultMinChunkSize THEN c ELSE "."]

\* the texts extract_pdf_text yields: nothing, one sentence, two sentences
IngestTexts ==
    {<<>>, LongSentence("a"), LongSentence("a") \o <<" ">> \o LongSentence("b")}

\* the embedding service's answers inside _chunk_text: a failure, or vectors
\* that make neighbouring sentences similar (one chunk) or not (two chunks)
IngestEmbeds(text) ==
    {r \in EmbedAnswers(Len(Sentences(text))) :
        \/ ~r.ok
        \/ /\ Len(r.data) = Len(Sentences(text))
           /\ \A k \in 1..Len(r.data) :
                r.data[k] \in (IF k = 1 THEN {<<1, 0>>} ELSE {<<1, 1>>, <<-1, 1>>})}

\* self._chunk_text(text), with the defaults, for these texts and answers
IngestChunkings ==
    {ChunkText(text, embResp, DefaultMaxChunkSize, DefaultMinChunkSize) :
        text \in IngestTexts, embResp \in UNION {IngestEmbeds(t) : t \in IngestTexts}}

VectorFailures == {"none", "collection", "pdf", "embed", "upsert"}

ent(i) == [shape |-> "ok", id |-> i, type |-> "Person"]
rel(a, b) == [shape |-> "ok", source |-> a, target |-> b, type |-> "works_for"]
answer(e, r) == [api |-> "ok", json |-> "object", keys |-> TRUE,
                 entList |-> TRUE, entities |-> e, relList |-> TRUE, relationships |-> r]

\* the extraction model's answers at ingestion: no entity, one, two with a
\* relationship, and one whose relationship names an unlisted entity
GraphAnswers ==
    {answer(<<>>, <<>>), answer(<<ent("x")>>, <<>>), answer(<<ent("y")>>, <<>>),
     answer(<<ent("x"), ent("y")>>, <<rel("x", "y")>>),
     answer(<<ent("x")>>, <<rel("x", "y")>>)}

\* the answers a hybrid ingestion draws from: one entity, and the answer
\* that fails validation and so brings no entity
HybridAnswers ==
    {answer(<<ent("x")>>, <<>>), answer(<<ent("x")>>, <<rel("x", "y")>>)}

\* the chunkings a hybrid ingestion draws from: of no text and of a text of
\* one short sentence, which the trailing commit keeps as the only chunk
HybridChunkings ==
    {ChunkText(text, embResp, DefaultMaxChunkSize, DefaultMinChunkSize) :
        text \in {<<>>, <<"a", ".">>},
        embResp \in IngestEmbeds(<<"a", ".">>)}

\* the session.run calls that succeed in an ingestion: none, the first one
\* only, or all of them
OkStatements(resp) == {0, 1, StatementCount(resp)}

VectorStore == [points |-> points, next |-> nextId.point]

Graph == [docs |-> docs, entities |-> entities, mentions |-> mentions, rels |-> rels,
          nextDoc |-> nextId.doc, nextNode |-> nextId.node]

SetGraph(g) ==
    /\ docs' = g.docs
    /\ entities' = g.entities
    /\ mentions' = g.mentions
    /\ rels' = g.rels
    /\ nextId' = [nextId EXCEPT !.doc = g.nextDoc, !.node = g.nextNode]

-----------------------------------------------------------------------------
(* SpecGraph: the graph store under GraphDBProcessor's ingestion and       *)
(* deletion, at most MaxDocs ingestions.                                   *)

Init ==
    /\ ck = NoChunkCall
    /\ ex = NoExtractCall
    /\ last = NoCall
    /\ EmptyStores

GraphIngestCall ==
    \E file \in Files, resp \in GraphAnswers :
      \E okStmts \in OkStatements(resp) :
        \E g \in {GraphIngest(Graph, file, resp, okStmts)} :
        /\ g.graph.nextDoc <= MaxDocs
        /\ SetGraph(g.graph)
        /\ last' = [NoCall EXCEPT !.op = "graph.ingest", !.file = file,
                                  !.outcome = g.outcome, !.graph = g.outcome,
                                  !.ids = {g.data.entities[k].id :
                                             k \in 1..Len(g.data.entities)},
                                  !.failed = okStmts < StatementCount(resp)]
    /\ UNCHANGED <<jobs, ck, ex, points>>

\* what last.graph says of a deletion
DeleteVerdict(g, fail) ==
    IF fail = "neo4j" THEN "unreachable"
    ELSE IF g.committed THEN "committed" ELSE "rolled back"

GraphDeleteCall ==
    \E file \in Files, fail \in {"none", "neo4j"}, reported \in BOOLEAN :
        \E g \in {GraphDelete(Graph, file, fail, reported)} :
        /\ SetGraph(g.graph)
        /\ last' = [NoCall EXCEPT !.op = "graph.delete", !.file = file,
                                  !.outcome = "returned",
                                  !.graph = DeleteVerdict(g, fail),
                                  !.status = <<[msg |-> g.status, file |-> file]>>]
    /\ UNCHANGED <<jobs, ck, ex, points>>

SpecGraph == Init /\ [][GraphIngestCall \/ GraphDeleteCall]_vars

\* the filenames of the Documents that Entity node e is mentioned in
MentioningFiles(e) ==
    {d.filename : d \in {dd \in docs : [e |-> e.n, d |-> dd.id] \in mentions}}

\* C10: after delete_file_points(f) has run its statement against the store,
\* no Document of filename f is left, every Entity that only Documents of f
\* mentioned is gone, and every Entity another Document mentions is kept.
C10_DeleteRemovesDocumentAndOrphans ==
    [][\A f \in Files :
         (last'.op = "graph.delete" /\ last'.file = f /\ last'.graph # "unreachable") =>
            /\ \A d \in docs' : d.filename # f
            /\ \A e \in entities :
                 MentioningFiles(e) = {f} => \A e2 \in entities' : e2.n # e.n
            /\ \A e \in entities :
                 (MentioningFiles(e) \ {f}) # {} => \E e2 \in entities' : e2.n = e.n]_vars

\* Entity node n is in the set ents
Present(n, ents) == \E e \in ents : e.n = n

C16_OneEntityPerId ==
    [][last'.op = "graph.ingest" =>
          /\ \A e1, e2 \in entities' : e1.id = e2.id => e1 = e2
          /\ \A e \in entities : \E e2 \in entities' : e2.n = e.n /\ e2.id = e.id
          /\ mentions \subseteq mentions'
          /\ last'.outcome = "returned" =>
               \A e \in entities :
                 e.id \in last'.ids =>
                   \A d \in docs' \ docs : [e |-> e.n, d |-> d.id] \in mentions']_vars

\* an ingestion has returned and an Entity is mentioned by two Documents
C16_Witness ==
    /\ last.op = "graph.ingest" /\ last.outcome = "returned"
    /\ \E e \in entities :
         /\ e.id \in last.ids
         /\ Cardinality({m \in mentions : m.e = e.n}) = 2

-----------------------------------------------------------------------------
(* Spec: both stores under HybridProcessor's ingestion and deletion, at    *)
(* most MaxPoints points and MaxDocs Documents ingested.                   *)

\* the extraction model's answer passes every test of lines 100-140, so
\* _extract_entities_and_relationships hands on what the answer lists
ExtractionKept(resp) ==
    /\ resp.api = "ok" /\ resp.json = "object" /\ resp.keys
    /\ resp.entList /\ EntitiesPass(resp.entities, 1)
    /\ resp.relList /\ RelationshipsPass(resp.relationships, resp.entities, 1) = "pass"

\* HybridProcessor.process_and_store_pdf: the vector path, then the graph
\* path; an exception of either leaves the method at once
HybridIngest ==
    \E file \in Files, chunked \in HybridChunkings, vfail \in VectorFailures :
        \E v \in {VectorIngest(VectorStore, file, chunked, vfail)} :
        /\ v.next <= MaxPoints
        /\ points' = v.points
        /\ IF v.outcome = "raised"
           THEN /\ UNCHANGED <<docs, entities, mentions, rels, nextId>>
                /\ last' = [NoCall EXCEPT !.op = "ingest", !.file = file,
                                          !.outcome = "raised", !.vector = "raised",
                                          !.failed = TRUE]
           ELSE \E resp \in HybridAnswers :
                  \E okStmts \in OkStatements(resp) :
                    \E g \in {GraphIngest(Graph, file, resp, okStmts)} :
                    /\ g.graph.nextDoc <= MaxDocs
                    /\ docs' = g.graph.docs
                    /\ entities' = g.graph.entities
                    /\ mentions' = g.graph.mentions
                    /\ rels' = g.graph.rels
                    /\ nextId' = [point |-> v.next, doc |-> g.graph.nextDoc,
                                  node |-> g.graph.nextNode]
                    /\ last' = [NoCall EXCEPT !.op = "ingest", !.file = file,
                                              !.outcome = g.outcome,
                                              !.vector = "returned",
                                              !.graph = g.outcome,
                                              !.extraction =
                                                  IF ExtractionKept(resp) THEN "kept"
                                                  ELSE "discarded",
                                              !.failed = okStmts < StatementCount(resp),
                                              !.status = IF g.outcome = "returned"
                                                         THEN <<[msg |-> "filename", file |-> file]>>
                                                         ELSE <<>>]
    /\ UNCHANGED <<jobs, ck, ex>>

\* HybridProcessor.delete_file_points: the vector store's deletion, then the
\* graph store's, and the two status strings joined by a newline
HybridDelete ==
    \E file \in Files, vfails \in BOOLEAN :
        \E v \in {VectorDelete(VectorStore, file, vfails)} :
        /\ points' = v.points
        /\ IF v.outcome = "raised"
           THEN /\ UNCHANGED <<docs, entities, mentions, rels, nextId>>
                /\ last' = [NoCall EXCEPT !.op = "delete", !.file = file,
                                          !.outcome = "raised", !.vector = "raised",
                                          !.calls = v.calls]
           ELSE \E gfail \in {"none", "neo4j"}, reported \in BOOLEAN :
                \E g \in {GraphDelete(Graph, file, gfail, reported)} :
                /\ SetGraph(g.graph)
                /\ last' = [NoCall EXCEPT !.op = "delete", !.file = file,
                                          !.outcome = "returned",
                                          !.vector = "returned",
                                          !.removed = Cardinality({p \in points :
                                                                     p.file = file}),
                                          !.graph = DeleteVerdict(g, gfail),
                                          !.status = <<[msg |-> v.status, file |-> file],
                                                       [msg |-> g.status, file |-> file]>>,
                                          !.calls = v.calls \o <<"neo4j.run">>]
    /\ UNCHANGED <<jobs, ck, ex>>

\* HybridProcessor.get_processed_files: the vector store's listing, then the
\* graph store's, and their intersection
HybridList ==
    /\ \E vfails \in BOOLEAN, gfails \in BOOLEAN :
         LET v == VectorFiles(VectorStore, vfails)
             g == GraphFiles(Graph, gfails)
         IN  IF v.outcome = "raised"
             THEN last' = [NoCall EXCEPT !.op = "list", !.outcome = "raised",
                                         !.vector = "raised", !.failed = TRUE]
             ELSE last' = [NoCall EXCEPT !.op = "list", !.outcome = "returned",
                                         !.vector = "returned",
                                         !.graph = IF gfails THEN "unreachable"
                                                   ELSE "returned",
                                         !.failed = gfails,
                                         !.files = ListedByBoth(v.files, g),
                                         !.vfiles = v.files, !.gfiles = g]
    /\ UNCHANGED <<jobs, ck, ex, points, docs, entities, mentions, rels, nextId>>

Next == HybridIngest \/ HybridDelete \/ HybridList

Spec == Init /\ [][Next]_vars

\* C8: HybridProcessor.delete_file_points attempts the deletion in the vector
\* store and the deletion in the graph store independently and returns both
\* status strings without raising, whatever the other store's outcome.
\* Violated: an exception of the vector store's deletion leaves the method
\* before the graph store's deletion is attempted.
C8_DeleteAttemptsBothStores ==
    last.op = "delete" =>
        /\ last.outcome = "returned"
        /\ Len(last.status) = 2
        /\ \E k \in 1..Len(last.calls) : last.calls[k] = "qdrant.delete"
        /\ \E k \in 1..Len(last.calls) : last.calls[k] = "neo4j.run"

-----------------------------------------------------------------------------
(* What the query methods read.                                            *)

\* the records a reading query matches: in a graph without an Entity none
Rows(g) ==
    IF g.entities = {} THEN {<<>>}
    ELSE {<<>>, <<"{'entityName': 'Alice'}">>,
          <<"{'entityName': 'Alice'}", "{'entityName': 'Bob'}">>}

\* the words of the answering models
VectorReplies == {<<"Alice", "works", "for", "TechCorp">>,
                  <<"The", "context", "does", "not", "say">>}
GraphReplies == {<<"Alice", "works", "for", "TechCorp">>}
FuseReplies == {<<"Alice", "works", "for", "TechCorp">>, <<"Both", "sources", "agree">>}

\* what query_points answers with: the stored points, the SearchLimit
\* nearest of them, in any order of nearness
SearchResults(pts) ==
    {s \in [1..Min(SearchLimit, Cardinality(pts)) -> pts] :
        \A j, k \in DOMAIN s : j # k => s[j] # s[k]}

VectorEnvs(store) ==
    {[fail |-> f, results |-> r, reply |-> a] :
        f \in {"none", "embed", "search", "llm"},
        r \in SearchResults(store.points), a \in VectorReplies}

GraphEnvs(g) ==
    {[fail |-> f, query |-> q, rows |-> r, reply |-> a] :
        f \in {"none", "llm", "neo4j", "answer"},
        q \in GeneratedQueries, r \in Rows(g), a \in GraphReplies}

FuseEnvs == {[fail |-> TRUE, reply |-> <<>>]}
              \cup {[fail |-> FALSE, reply |-> a] : a \in FuseReplies}

EmptyGraph == [docs |-> {}, entities |-> {}, mentions |-> {}, rels |-> {},
               nextDoc |-> 0, nextNode |-> 0]

\* the vector stores a query meets: empty, or after one ingestion
QueryVectorStores ==
    {VectorIngest([points |-> {}, next |-> 0], "f1", c, "none") : c \in IngestChunkings}

\* the graphs a query meets: empty, or after one ingestion of two related
\* entities
QueryGraphs ==
    {EmptyGraph,
     GraphIngest(EmptyGraph, "f1", answer(<<ent("x"), ent("y")>>, <<rel("x", "y")>>),
                 StatementCount(answer(<<ent("x"), ent("y")>>, <<rel("x", "y")>>))).graph}

-----------------------------------------------------------------------------
(* SpecQuery: the three query methods on the stores of QueryVectorStores   *)
(* and QueryGraphs, with every answer of the services they call.           *)

Skipped == [outcome |-> "skipped", answer |-> <<>>, chunks |-> <<>>, calls |-> <<>>,
            found |-> -1, failed |-> FALSE]

\* last after a query: what the call returned (vector and graph are its
\* evidence lists), the text the query model generated, and the results of
\* the retrievers that were called
NoQueryCall == [op |-> "none", outcome |-> "none", answer |-> <<>>,
                vector |-> <<>>, graph |-> <<>>, calls |-> <<>>,
                query |-> NoQuery, vres |-> Skipped, gres |-> Skipped]

\* a result of GraphQuery without the graph it leaves behind
Result(r) == [outcome |-> r.outcome, answer |-> r.answer, chunks |-> r.chunks,
              calls |-> r.calls, found |-> r.found, failed |-> r.failed]

QueryInit ==
    /\ ck = NoChunkCall
    /\ ex = NoExtractCall
    /\ last = NoQueryCall
    /\ jobs = NoJobs
    /\ \E v \in QueryVectorStores, g \in QueryGraphs :
         /\ points = v.points
         /\ docs = g.docs
         /\ entities = g.entities
         /\ mentions = g.mentions
         /\ rels = g.rels
         /\ nextId = [point |-> v.next, doc |-> g.nextDoc, node |-> g.nextNode]

VectorQueryCall ==
    /\ \E env \in VectorEnvs(VectorStore) :
         LET res == VectorQuery(env) IN
         last' = [NoQueryCall EXCEPT !.op = "vector.query", !.outcome = res.outcome,
                                     !.answer = res.answer, !.vector = res.chunks,
                                     !.calls = res.calls, !.vres = res]
    /\ UNCHANGED <<jobs, ck, ex, points, docs, entities, mentions, rels, nextId>>

GraphQueryCall ==
    /\ \E env \in GraphEnvs(Graph) :
         LET res == GraphQuery(Graph, env) IN
         /\ SetGraph(res.graph)
         /\ last' = [NoQueryCall EXCEPT !.op = "graph.query", !.outcome = res.outcome,
                                        !.answer = res.answer, !.graph = res.chunks,
                                        !.calls = res.calls,
                                        !.query = IF env.fail = "llm" THEN NoQuery
                                                  ELSE env.query,
                                        !.gres = Result(res)]
    /\ UNCHANGED <<jobs, ck, ex, points>>

\* HybridProcessor.query: the vector retriever (line 22), then the graph
\* retriever (line 23), then the fusing call; an exception of the vector
\* retriever leaves the method before line 23
HybridQueryCall ==
    /\ \E gres \in {GraphQuery(Graph, env) : env \in GraphEnvs(Graph)} :
         \E venv \in VectorEnvs(VectorStore), fuse \in FuseEnvs :
           LET vres == VectorQuery(venv) IN
           IF vres.outcome = "raised"
           THEN /\ UNCHANGED <<docs, entities, mentions, rels, nextId>>
                /\ last' = [NoQueryCall EXCEPT !.op = "hybrid.query",
                                               !.outcome = "raised",
                                               !.calls = vres.calls, !.vres = vres]
           ELSE LET res == HybridFuse(vres, gres, fuse) IN
                /\ SetGraph(gres.graph)
                /\ last' = [NoQueryCall EXCEPT !.op = "hybrid.query",
                                               !.outcome = res.outcome,
                                               !.answer = res.answer,
                                               !.vector = res.chunks.vector,
                                               !.graph = res.chunks.graph,
                                               !.calls = res.calls,
                                               !.vres = vres, !.gres = Result(gres)]
    /\ UNCHANGED <<jobs, ck, ex, points>>

QueryNext == VectorQueryCall \/ GraphQueryCall \/ HybridQueryCall

SpecQuery == QueryInit /\ [][QueryNext]_vars

Called(name) == \E k \in 1..Len(last.calls) : last.calls[k] = name

\* C2: a generated query whose RETURN clause projects an identifier that the
\* part before RETURN does not bind fails validation: its text is never run
\* against the graph store, and the call returns a query-failure answer with
\* empty evidence.
\* Violated: the second pass of the validation takes every word before
\* RETURN that is no stop word for a defined variable, a property key or a
\* word of a string literal too, and the query is run.
C2_UnboundProjectionNeverRuns ==
    (last.op = "graph.query" /\ ~(last.query.projected \subseteq last.query.bound)) =>
        /\ ~Called("neo4j.run")
        /\ last.outcome = "returned"
        /\ last.answer[1] = "Graph query failed:"
        /\ last.graph = <<>>

\* C5: a hybrid query that returns has under chunks.vector exactly the
\* evidence list the vector retriever returned and under chunks.graph exactly
\* the one the graph retriever returned, whatever the fused answer is.
C5_HybridEvidenceUnmodified ==
    (last.op = "hybrid.query" /\ last.outcome = "returned") =>
        /\ last.vector = last.vres.chunks
        /\ last.graph = last.gres.chunks

\* the vector retriever found chunks, the graph retriever returned a row,
\* and the fused answer is neither retriever's answer
C5_Witness ==
    /\ last.op = "hybrid.query" /\ last.outcome = "returned"
    /\ last.vres.chunks # <<>> /\ last.gres.chunks # <<>>
    /\ last.vector = last.vres.chunks /\ last.graph = last.gres.chunks
    /\ last.answer # last.vres.answer /\ last.answer # last.gres.answer

\* C6: in a hybrid query a failure in one retriever's path does not keep the
\* other path from running, and the hybrid query still returns.
\* Violated: an exception of the vector retriever leaves the hybrid query
\* before the graph retriever is called.
C6_PathFailuresIsolated ==
    (last.op = "hybrid.query" /\ (last.vres.failed \/ last.gres.failed)) =>
        /\ last.outcome = "returned"
        /\ last.vres.outcome # "skipped"
        /\ last.gres.outcome = "returned"

\* C7: when an external call of a retriever's query fails, the query returns
\* a failure answer with an empty evidence list and raises nothing.
\* Violated: VectorDBProcessor.query catches no exception.
C7_ServiceFailureBecomesAnswer ==
    (last.op \in {"vector.query", "graph.query"}
       /\ (last.vres.failed \/ last.gres.failed)) =>
        /\ last.outcome = "returned"
        /\ last.answer # <<>>
        /\ last.vector = <<>> /\ last.graph = <<>>

\* C9: a vector search that returns zero points makes VectorDBProcessor.query
\* return "No relevant information found." with no evidence; an executed
\* graph query that returns zero rows makes GraphDBProcessor.query return
\* "No relevant information found in graph." with no evidence; neither calls
\* the answering model.
C9_NothingFoundSentinel ==
    /\ (last.op = "vector.query" /\ last.vres.found = 0) =>
          /\ last.outcome = "returned"
          /\ last.answer = <<"No relevant information found.">>
          /\ last.vector = <<>>
          /\ ~Called("llm.answer")
    /\ (last.op = "graph.query" /\ last.gres.found = 0) =>
          /\ last.outcome = "returned"
          /\ last.answer = <<"No relevant information found in graph.">>
          /\ last.graph = <<>>
          /\ ~Called("llm.graph_answer")

\* a vector query on a store without a point
C9_Witness ==
    /\ last.op = "vector.query" /\ last.vres.found = 0
    /\ Called("qdrant.query_points")
    /\ last.answer = <<"No relevant information found.">>

\* C20: GraphDBProcessor.query leaves the graph store as it was: the Document
\* nodes, the Entity nodes, the MENTIONED_IN edges and the RELATED edges are
\* the same after the call as before it.
\* Violated: the test of line 249 admits CREATE and MERGE as the leading
\* keyword, the generated text is run as it is, and a generated
\* CREATE (n:Entity {id:'x'}) RETURN n writes an Entity node.
C20_QueryLeavesGraphUnchanged ==
    [][last'.op = "graph.query" =>
          /\ docs' = docs
          /\ entities' = entities
          /\ mentions' = mentions
          /\ rels' = rels]_vars

-----------------------------------------------------------------------------
(* SpecVector: VectorDBProcessor.process_and_store_pdf batch by batch, so  *)
(* that ingestions of MaxJobs threads interleave at the calls of the       *)
(* batch loop, with deletions in between.  At most MaxIngestions           *)
(* ingestions are begun.  A file is deleted while no ingestion of it is    *)
(* under way.                                                              *)

\* what extract_pdf_text yields for a file: the file's text does not change
\* from one ingestion to the next
FileText(f) ==
    IF f = "f1" THEN LongSentence("a") \o <<" ">> \o LongSentence("b")
    ELSE LongSentence("a")

\* the embedding service's answer for the sentences of a file's text; the
\* two sentences of f1 are not similar
FileEmbedding(f) ==
    [ok |-> TRUE,
     data |-> IF f = "f1" THEN <<<<1, 0>>, <<-1, 1>>>> ELSE <<<<1, 0>>>>]

\* self._chunk_text(text) for a file, with the defaults
FileChunking ==
    [f \in Files |->
        ChunkText(FileText(f), FileEmbedding(f), DefaultMaxChunkSize, DefaultMinChunkSize)]

\* the threads that are in an ingestion of file f, but for thread t
OthersOn(f, t) == {u \in 1..MaxJobs : u # t /\ jobs.running[u].file = f}

\* lines 95-101: the collection check, the text, the chunks, and the empty
\* seen_chunks; fail names the call that raises, if one does
VectorIngestStart ==
    \E t \in 1..MaxJobs, file \in Files, fail \in {"none", "collection", "pdf"} :
        /\ jobs.running[t] = Idle
        /\ jobs.started < MaxIngestions
        /\ IF fail # "none" \/ FileChunking[file].outcome = "raised"
           THEN /\ jobs' = [jobs EXCEPT !.started = @ + 1]
                /\ last' = [NoCall EXCEPT !.op = "vector.ingest", !.file = file,
                                          !.outcome = "raised", !.vector = "raised",
                                          !.failed = TRUE]
           ELSE /\ jobs' = [jobs EXCEPT
                     !.started = @ + 1,
                     !.running = [u \in 1..MaxJobs |->
                         IF u = t
                         THEN [file |-> file, chunks |-> FileChunking[file].chunks,
                               i |-> 0, seen |-> {}, overlap |-> OthersOn(file, t) # {}]
                         ELSE IF @[u].file = file THEN [@[u] EXCEPT !.overlap = TRUE]
                         ELSE @[u]]]
                /\ UNCHANGED last
        /\ UNCHANGED <<ck, ex, points, docs, entities, mentions, rels, nextId>>

\* one turn of the loop of lines 103-128: the batch from offset i is embedded,
\* its unseen chunks become points with fresh ids, and the points are upserted
VectorIngestBatch ==
    \E t \in 1..MaxJobs, fail \in {"none", "embed", "upsert"} :
        \E job \in {jobs.running[t]} :
        /\ job.file # "none"
        /\ job.i < Len(job.chunks)
        /\ \E st \in {BatchPoints(SubSeq(job.chunks, job.i + 1,
                                         Min(job.i + BatchSize, Len(job.chunks))),
                                  job.i, 0, job.file,
                                  [pending |-> {}, seen |-> job.seen,
                                   next |-> nextId.point])} :
             IF fail = "embed" \/ (fail = "upsert" /\ st.pending # {})
             THEN /\ jobs' = [jobs EXCEPT !.running[t] = Idle]
                  /\ last' = [NoCall EXCEPT !.op = "vector.ingest", !.file = job.file,
                                            !.outcome = "raised", !.vector = "raised",
                                            !.failed = TRUE]
                  /\ UNCHANGED <<points, nextId>>
             ELSE /\ points' = IF st.pending = {} THEN points
                               ELSE Upsert(points, st.pending)
                  /\ nextId' = [nextId EXCEPT !.point = st.next]
                  /\ jobs' = [jobs EXCEPT !.running[t].i = @ + BatchSize,
                                          !.running[t].seen = st.seen]
                  /\ UNCHANGED last
        /\ UNCHANGED <<ck, ex, docs, entities, mentions, rels>>

\* line 130: the loop is over and the filename is returned
VectorIngestReturn ==
    \E t \in 1..MaxJobs :
        \E job \in {jobs.running[t]} :
        /\ job.file # "none"
        /\ job.i >= Len(job.chunks)
        /\ jobs' = [jobs EXCEPT !.running[t] = Idle,
                                !.done[job.file] = @ + 1,
                                !.mixed[job.file] = @ \/ job.overlap]
        /\ last' = [NoCall EXCEPT !.op = "vector.ingest", !.file = job.file,
                                  !.outcome = "returned", !.vector = "returned"]
        /\ UNCHANGED <<ck, ex, points, docs, entities, mentions, rels, nextId>>

\* VectorDBProcessor.delete_file_points, while no thread ingests the file
VectorDeleteCall ==
    \E file \in Files, fails \in BOOLEAN :
        \E v \in {VectorDelete(VectorStore, file, fails)} :
        /\ \A t \in 1..MaxJobs : jobs.running[t].file # file
        /\ points' = v.points
        /\ jobs' = IF v.outcome = "returned"
                   THEN [jobs EXCEPT !.done[file] = 0, !.mixed[file] = FALSE]
                   ELSE jobs
        /\ last' = [NoCall EXCEPT !.op = "vector.delete", !.file = file,
                                  !.outcome = v.outcome, !.vector = v.outcome,
                                  !.calls = v.calls]
        /\ UNCHANGED <<ck, ex, docs, entities, mentions, rels, nextId>>

SpecVector ==
    Init /\ [][VectorIngestStart \/ VectorIngestBatch \/ VectorIngestReturn
                 \/ VectorDeleteCall]_vars

\* the points of one ingestion of file f into an empty collection, without
\* their ids
OneIngestion(f) ==
    {[text |-> p.text, chunk_id |-> p.chunk_id] :
        p \in VectorIngest([points |-> {}, next |-> 0], f, FileChunking[f], "none").points}

\* the stored points of file f with the text and position of c
Copies(f, c) ==
    {p \in points : p.file = f /\ p.text = c.text /\ p.chunk_id = c.chunk_id}

\* the ingestions of file f that returned since its last deletion, and those
\* under way that have upserted their batch
Upserted(f) ==
    jobs.done[f]
      + Cardinality({t \in 1..MaxJobs : jobs.running[t].file = f /\ jobs.running[t].i > 0})

\* C18: n ingestions of a file into the vector store with no deletion in
\* between leave n copies of every point of one ingestion, each with an id
\* of its own, and no other point of the file, whether the ingestions ran one
\* after the other or interleaved.
C18_ReingestionAddsPoints ==
    /\ \A f \in Files :
         /\ \A c \in OneIngestion(f) : Cardinality(Copies(f, c)) = Upserted(f)
         /\ \A p \in points :
              p.file = f => [text |-> p.text, chunk_id |-> p.chunk_id] \in OneIngestion(f)
    /\ \A p, q \in points : p.id = q.id => p = q

\* two ingestions of f1 have returned, one of them while the other was under
\* way, and the collection holds each point of f1 twice
C18_Witness ==
    /\ jobs.done["f1"] = 2 /\ jobs.mixed["f1"]
    /\ \A t \in 1..MaxJobs : jobs.running[t] = Idle
    /\ Cardinality(OneIngestion("f1")) = 2
    /\ Cardinality({p \in points : p.file = "f1"}) = 4

-----------------------------------------------------------------------------
(* Properties of Spec: listing and ingestion through HybridProcessor.      *)

\* C11: HybridProcessor.get_processed_files returns exactly the filenames
\* that the vector store lists and the graph store lists; a filename known to
\* one store only is never returned.
C11_ListIsIntersection ==
    (last.op = "list" /\ last.outcome = "returned") =>
        /\ last.files = {f \in Files : f \in last.vfiles /\ f \in last.gfiles}
        /\ last.vfiles = {p.file : p \in points}
        /\ last.graph = "returned" => last.gfiles = {d.filename : d \in docs}
        /\ \A f \in last.files :
             (\E p \in points : p.file = f) /\ (\E d \in docs : d.filename = f)

\* a listing with a file in both stores and a file in the graph store only
C11_Witness ==
    /\ last.op = "list" /\ last.outcome = "returned"
    /\ last.files # {}
    /\ \E f \in last.gfiles : f \notin last.vfiles /\ f \notin last.files

\* C12: a hybrid ingestion whose extraction answer fails validation, with no
\* external call failing, completes and returns the filename; the points
\* written before stay and the file's points are added, and the graph gains
\* one Document node for the file and no Entity, mention or Relationship.
C12_DiscardedExtractionStillIngests ==
    [][(last'.op = "ingest" /\ last'.extraction = "discarded" /\ ~last'.failed) =>
          /\ last'.outcome = "returned"
          /\ last'.status = <<[msg |-> "filename", file |-> last'.file]>>
          /\ points \subseteq points'
          /\ \A p \in points' \ points : p.file = last'.file
          /\ Cardinality(docs' \ docs) = 1 /\ docs \subseteq docs'
          /\ \A d \in docs' \ docs : d.filename = last'.file
          /\ entities' = entities /\ mentions' = mentions /\ rels' = rels]_vars

\* such an ingestion has happened: the file has a point, and a Document that
\* no Entity mentions
C12_Witness ==
    /\ last.op = "ingest" /\ last.extraction = "discarded" /\ last.outcome = "returned"
    /\ \E p \in points : p.file = last.file
    /\ \E d \in docs : d.filename = last.file /\ ~\E m \in mentions : m.d = d.id

\* C19: when the vector store's deletion of a file has returned, no point of
\* the collection carries the filename and the points of the other files are
\* the ones there were; a listing that follows leaves the filename out,
\* whatever became of the deletion in the graph store.
C19_DeletedFileNotListed ==
    [][/\ (last'.op = "delete" /\ last'.vector = "returned") =>
            /\ \A p \in points' : p.file # last'.file
            /\ {p \in points' : p.file # last'.file} = {p \in points : p.file # last'.file}
       /\ (last.op = "delete" /\ last.vector = "returned"
            /\ last'.op = "list" /\ last'.outcome = "returned") =>
              last.file \notin last'.files]_vars

\* a file ingested twice was deleted: its two points are gone, and the graph
\* store still has its Document
C19_Witness ==
    /\ last.op = "delete" /\ last.vector = "returned" /\ last.removed = 2
    /\ last.graph \in {"unreachable", "rolled back"}
    /\ \E d \in docs : d.filename = last.file
    /\ \A p \in points : p.file # last.file

\* C21: when HybridProcessor.process_and_store_pdf has returned the filename,
\* a listing that follows it, and to which both stores answer, has the
\* filename in it, whatever the text of the document is.
\* Violated: a document whose text holds no sentence gets no chunk and so no
\* point; the vector store does not list it, and the intersection leaves it
\* out although the graph store has its Document.
C21_IngestedFileListed ==
    [][(/\ last.op = "ingest" /\ last.outcome = "returned"
        /\ last'.op = "list" /\ last'.outcome = "returned"
        /\ last'.graph = "returned") =>
            last.file \in last'.files]_vars

====
